---- MODULE Spec2Model ----
(***************************************************************************)
(* Model of parstream::run (src/src/lib.rs): a dispatcher (the calling     *)
(* thread), `threads` workers and one report thread (run_report), joined   *)
(* by a crossbeam scope and connected by two bounded channels and one      *)
(* atomic control flag.                                                    *)
(*                                                                         *)
(* Channel semantics are those of crossbeam_channel: send blocks while the *)
(* buffer is full, returns Err once every receiver is dropped; recv blocks *)
(* while the buffer is empty and some sender is alive.  `tx`, `rx` and     *)
(* `tx2` are locals of `run` that outlive the scope, so the work queue is  *)
(* never disconnected and the result channel never loses its senders; the  *)
(* only receiver of the result channel, `rx2`, is moved into run_report    *)
(* and dropped when run_report returns or unwinds.                         *)
(***************************************************************************)
EXTENDS Integers, Sequences, FiniteSets

\* ---------------------------------------------------------------- bounds
MaxThreads == 2
MaxLen == 2
\* Input length of the runs without failing callbacks (SpecSkew).
SkewLen == 10

\* Input length of the runs whose callbacks return Ok or Err (SpecCancel).
CancelLen == 3

\* Pool sizes of the runs of SpecSkew and SpecCancel: two workers is the
\* smallest pool in which one result can overtake another.
Pools == {1, 2}

\* ------------------------------------------------------ program constants
FLAG_INIT == 0
FLAG_ERROR == -1
FLAG_WORKER_PANIC == -2
FLAG_REPORT_PANIC == -3

\* The input element at position p and the transform the caller passes (the
\* crate's example squares its input).  run is generic in X and Y and never
\* inspects an element or a payload, so pairwise distinct elements with an
\* injective transform stand for every input: any other run is the image of
\* one of these under a renaming of the values.
X(p) == p + 2
F(x) == x * x

Workers == 1..MaxThreads
Outcomes == {"ok", "err", "panic"}

\* Option<(usize, X)> travelling on the work queue: a position, or the
\* shutdown token None.
TOKEN == -1
\* ReportMsg travelling on the result channel.
MsgNone == [kind |-> "None", pos |-> 0, ok |-> TRUE, val |-> 0]
NewResult(i, isOk, v) == [kind |-> "NewResult", pos |-> i, ok |-> isOk, val |-> v]

NoErr == <<"none", 0>>
TransformErr(i) == <<"transform", i>>
ReportErr(i) == <<"report", i>>

VARIABLES
    threads,     \* the `threads` argument
    xs,          \* the input sequence (1-indexed; position p is xs[p + 1])
    tOut,        \* what f does at each position: ok / err / panic
    rOut,        \* what report does for each position: ok / err / panic
    flag,        \* the AtomicIsize control flag
    queue,       \* work queue (tx, rx), capacity 2 * threads
    chan,        \* result channel (tx2, rx2), capacity 2 * threads
    rx2Alive,    \* rx2 has not been dropped
    pcMain,      \* dispatcher position
    dn,          \* dispatcher's n (= next enumerate index)
    tok,         \* shutdown tokens sent so far
    wpc,         \* per-worker position
    witem,       \* per-worker: the item it holds (TOKEN when it holds none)
    cpc,         \* report thread position
    cmsg,        \* message the report thread holds (MsgNone when it holds none)
    cn,          \* run_report's n (next_expected)
    buf,         \* run_report's BinaryHeap, as a sequence in pop order
    cerr,        \* the Err run_report returned, if any
    result,      \* run's `result` local
    ret,         \* what run returned
    reported,    \* payloads passed to report, in call order
    reportedPos, \* positions passed to report, in call order
    started,     \* number of f invocations per position
    lateStarts,  \* per-worker: f invocations begun after FLAG_ERROR was stored
    peakBuf      \* largest size the BinaryHeap has had

vars == <<threads, xs, tOut, rOut, flag, queue, chan, rx2Alive, pcMain, dn, tok,
          wpc, witem, cpc, cmsg, cn, buf, cerr, result, ret, reported,
          reportedPos, started, lateStarts, peakBuf>>

inputVars == <<threads, xs, tOut, rOut>>
mainVars == <<pcMain, dn, tok>>
workerVars == <<wpc, witem, started, lateStarts>>
coordVars == <<cpc, cmsg, cn, buf, cerr, result, reported, reportedPos, peakBuf>>

Len0 == Len(xs)
Positions == 0..(Len0 - 1)
Capacity == 2 * threads
Active == 1..threads

\* report is only ever called with the payload of an Ok result, so what it
\* would do at a position whose transform fails is never observed: such a
\* position is given the outcome "ok" for report.
Observable(t, r) ==
    \A p \in DOMAIN t : t[p] # "ok" => r[p] = "ok"

\* lib.rs 152-158 and the locals of the threads before their first step.
Constructed ==
    /\ flag = FLAG_INIT
    /\ queue = <<>>
    /\ chan = <<>>
    /\ rx2Alive = TRUE
    /\ pcMain = "loop"
    /\ dn = 0
    /\ tok = 0
    /\ wpc = [w \in Workers |-> IF w <= threads THEN "recv" ELSE "unused"]
    /\ witem = [w \in Workers |-> TOKEN]
    /\ lateStarts = [w \in Workers |-> 0]
    /\ cpc = "recv"
    /\ cmsg = MsgNone
    /\ cn = 0
    /\ buf = <<>>
    /\ cerr = NoErr
    /\ result = [ok |-> TRUE, count |-> 0, err |-> NoErr]
    /\ ret = [kind |-> "none", count |-> 0, err |-> NoErr]
    /\ reported = <<>>
    /\ reportedPos = <<>>
    /\ peakBuf = 0

Init ==
    /\ threads \in 1..MaxThreads
    /\ \E len \in 0..MaxLen :
         /\ xs = [k \in 1..len |-> X(k - 1)]
         /\ tOut \in [0..(len - 1) -> Outcomes]
         /\ rOut \in [0..(len - 1) -> Outcomes]
         /\ started = [p \in 0..(len - 1) |-> 0]
    /\ Observable(tOut, rOut)
    /\ Constructed

\* ------------------------------------------------------------ dispatcher

\* lib.rs 190-192: next element of the enumerate, flag check, n += 1.
DispatchNext ==
    /\ pcMain = "loop"
    /\ IF dn < Len0 /\ flag >= 0
          THEN /\ pcMain' = "send"
               /\ dn' = dn + 1
          ELSE /\ pcMain' = "check"
               /\ dn' = dn
    /\ UNCHANGED <<inputVars, flag, queue, chan, rx2Alive, tok, workerVars, coordVars, ret>>

\* lib.rs 193: tx.send(Some(val)); blocks while the queue is full.
DispatchSend ==
    /\ pcMain = "send"
    /\ Len(queue) < Capacity
    /\ queue' = Append(queue, dn - 1)
    /\ pcMain' = "loop"
    /\ UNCHANGED <<inputVars, flag, chan, rx2Alive, dn, tok, workerVars, coordVars, ret>>

\* lib.rs 196: the flag load that chooses between publishing the count and
\* clearing the queue.
DispatchCheck ==
    /\ pcMain = "check"
    /\ pcMain' = IF flag >= 0 THEN "store" ELSE "drain"
    /\ UNCHANGED <<inputVars, flag, queue, chan, rx2Alive, dn, tok, workerVars, coordVars, ret>>

\* lib.rs 197: flag.store(n).
DispatchStoreCount ==
    /\ pcMain = "store"
    /\ flag' = dn
    /\ pcMain' = "sentinel"
    /\ UNCHANGED <<inputVars, queue, chan, rx2Alive, dn, tok, workerVars, coordVars, ret>>

\* lib.rs 198: tx2.send(ReportMsg::None).unwrap(); the send fails, and the
\* unwrap panics, once rx2 is dropped.
DispatchSentinel ==
    /\ pcMain = "sentinel"
    /\ IF ~rx2Alive
          THEN /\ pcMain' = "panicked"
               /\ chan' = chan
          ELSE /\ Len(chan) < Capacity
               /\ chan' = Append(chan, MsgNone)
               /\ pcMain' = "tokens"
    /\ UNCHANGED <<inputVars, flag, queue, rx2Alive, dn, tok, workerVars, coordVars, ret>>

\* lib.rs 201: one rx.try_recv() of the clearing loop.
DispatchDrain ==
    /\ pcMain = "drain"
    /\ IF queue # <<>>
          THEN /\ queue' = Tail(queue)
               /\ pcMain' = "drain"
          ELSE /\ queue' = queue
               /\ pcMain' = "tokens"
    /\ UNCHANGED <<inputVars, flag, chan, rx2Alive, dn, tok, workerVars, coordVars, ret>>

\* lib.rs 204-206: one tx.send(None) of the shutdown loop (threads >= 1, so
\* the loop sends at least once); after the last one the closure ends.
DispatchToken ==
    /\ pcMain = "tokens"
    /\ Len(queue) < Capacity
    /\ queue' = Append(queue, TOKEN)
    /\ tok' = tok + 1
    /\ pcMain' = IF tok + 1 < threads THEN "tokens" ELSE "join"
    /\ UNCHANGED <<inputVars, flag, chan, rx2Alive, dn, workerVars, coordVars, ret>>

\* ---------------------------------------------------------------- workers

\* WorkerRecv that leaves the item in the queue (a receive that does not
\* consume).
WorkerRecvPeek(w) ==
    /\ wpc[w] = "recv"
    /\ queue # <<>>
    /\ witem' = [witem EXCEPT ![w] = Head(queue)]
    /\ wpc' = [wpc EXCEPT ![w] = "check"]
    /\ UNCHANGED <<inputVars, flag, queue, chan, rx2Alive, mainVars, started, lateStarts,
                   coordVars, ret>>

\* lib.rs 166: rxc.iter() yields the next item; blocks while the queue is
\* empty (tx is never dropped, so the iterator never ends by disconnection).
WorkerRecv(w) ==
    /\ wpc[w] = "recv"
    /\ queue # <<>>
    /\ witem' = [witem EXCEPT ![w] = Head(queue)]
    /\ queue' = Tail(queue)
    /\ wpc' = [wpc EXCEPT ![w] = "check"]
    /\ UNCHANGED <<inputVars, flag, chan, rx2Alive, mainVars, started, lateStarts, coordVars,
                   ret>>

\* The flag has been negative: the report thread has stored FLAG_ERROR (lib.rs
\* 184, the only store of a negative value).
Cancelled == cpc = "done" /\ cerr # NoErr

\* Where the worker goes after lib.rs 167-171 and 175: the flag check, the
\* match on the item and the call fp(x).
WorkerAfterItem(fl, item) ==
    IF fl < 0 THEN "done"
    ELSE IF item = TOKEN THEN "done"
    ELSE IF tOut[item] = "panic" THEN "panicked"
    ELSE "send"

\* lib.rs 167-171: flag check, then fp(x) for a Some item.
WorkerCheck(w) ==
    /\ wpc[w] = "check"
    /\ wpc' = [wpc EXCEPT ![w] = WorkerAfterItem(flag, witem[w])]
    /\ witem' = IF wpc'[w] = "send" THEN witem ELSE [witem EXCEPT ![w] = TOKEN]
    /\ started' = IF flag >= 0 /\ witem[w] # TOKEN
                     THEN [started EXCEPT ![witem[w]] = @ + 1]
                     ELSE started
    /\ lateStarts' = IF flag >= 0 /\ witem[w] # TOKEN /\ Cancelled
                        THEN [lateStarts EXCEPT ![w] = @ + 1]
                        ELSE lateStarts
    /\ UNCHANGED <<inputVars, flag, queue, chan, rx2Alive, mainVars, coordVars, ret>>

\* lib.rs 171: res = (i, fp(x)); an Err carries no payload.
WorkerResult(i) ==
    IF tOut[i] = "ok" THEN NewResult(i, TRUE, F(xs[i + 1])) ELSE NewResult(i, FALSE, 0)

\* WorkerSend without the `if r.is_err() { break; }` of lib.rs 173.
WorkerSendNoBreak(w) ==
    /\ wpc[w] = "send"
    /\ rx2Alive => Len(chan) < Capacity
    /\ chan' = IF rx2Alive THEN Append(chan, WorkerResult(witem[w])) ELSE chan
    /\ wpc' = [wpc EXCEPT ![w] = "recv"]
    /\ witem' = [witem EXCEPT ![w] = TOKEN]
    /\ UNCHANGED <<inputVars, flag, queue, rx2Alive, mainVars, started, lateStarts, coordVars,
                   ret>>

\* lib.rs 172-173: txc.send(NewResult(res)); blocks while the channel is
\* full, fails (and the worker breaks) once rx2 is dropped.
WorkerSend(w) ==
    /\ wpc[w] = "send"
    /\ IF ~rx2Alive
          THEN /\ wpc' = [wpc EXCEPT ![w] = "done"]
               /\ chan' = chan
          ELSE /\ Len(chan) < Capacity
               /\ chan' = Append(chan, WorkerResult(witem[w]))
               /\ wpc' = [wpc EXCEPT ![w] = "recv"]
    /\ witem' = [witem EXCEPT ![w] = TOKEN]
    /\ UNCHANGED <<inputVars, flag, queue, rx2Alive, mainVars, started, lateStarts, coordVars,
                   ret>>

\* ----------------------------------------------------------- run_report

\* State { pos, payload }
State(i, v) == [pos |-> i, payload |-> v]

\* BinaryHeap::push under the reversed Ord of lib.rs 79-83: the heap is kept
\* as the sequence in which peek/pop would yield it (smallest pos first).
RECURSIVE Push(_, _)
Push(b, e) ==
    IF b = <<>> THEN <<e>>
    ELSE IF e.pos < Head(b).pos THEN <<e>> \o b
    ELSE <<Head(b)>> \o Push(Tail(b), e)

\* One call f(payload) of the report closure for a State: the record after
\* the call (the call is logged whatever it returns).
CallReport(st, e) ==
    LET called == [st EXCEPT !.calls = Append(@, e)] IN
    CASE rOut[e.pos] = "ok" -> [called EXCEPT !.n = @ + 1]
      [] rOut[e.pos] = "err" -> [called EXCEPT !.exit = "err", !.err = ReportErr(e.pos)]
      [] OTHER -> [called EXCEPT !.exit = "panic"]

\* A drain loop that releases nothing (n += 1 of lib.rs 118 moved below the
\* loop, so its first comparison fails).
DrainNothing(st) == st

\* A drain that releases at most one entry (`if let` for the `while let` of
\* lib.rs 119).
DrainOne(st) ==
    IF st.buf = <<>> THEN st
    ELSE LET pm == Head(st.buf) IN
         IF pm.pos < st.n THEN [st EXCEPT !.exit = "panic"]
         ELSE IF pm.pos # st.n THEN st
         ELSE CallReport([st EXCEPT !.buf = Tail(@)], pm)

\* lib.rs 119-124: the drain loop.
RECURSIVE Drain(_)
Drain(st) ==
    IF st.buf = <<>> THEN st
    ELSE LET pm == Head(st.buf) IN
         IF pm.pos < st.n THEN [st EXCEPT !.exit = "panic"]
         ELSE IF pm.pos # st.n THEN st
         ELSE LET after == CallReport([st EXCEPT !.buf = Tail(@)], pm) IN
              IF after.exit = "continue" THEN Drain(after) ELSE after

\* Finish with `<=` for the `==` of lib.rs 129.
FinishAtLeast(target, st) ==
    IF st.exit = "continue" /\ target <= st.n THEN [st EXCEPT !.exit = "ok"] ELSE st

\* lib.rs 129: if target as usize == n { break }
Finish(target, st) ==
    IF st.exit = "continue" /\ target = st.n THEN [st EXCEPT !.exit = "ok"] ELSE st

\* OnNewResult without the position test of lib.rs 112: every result is
\* passed to report as it arrives.
OnNewResultUnordered(target, msg, st) ==
    IF ~msg.ok THEN [st EXCEPT !.exit = "err", !.err = TransformErr(msg.pos)]
    ELSE LET after == CallReport(st, State(msg.pos, msg.val)) IN
         IF after.exit = "continue" THEN Finish(target, Drain(after)) ELSE after

\* OnNewResult with `i < n` for the `i != n` of lib.rs 112.
OnNewResultAhead(target, msg, st) ==
    IF ~msg.ok THEN [st EXCEPT !.exit = "err", !.err = TransformErr(msg.pos)]
    ELSE IF msg.pos < st.n THEN [st EXCEPT !.buf = Push(@, State(msg.pos, msg.val))]
    ELSE LET after == CallReport(st, State(msg.pos, msg.val)) IN
         IF after.exit = "continue" THEN Finish(target, Drain(after)) ELSE after

\* OnNewResult without the `?` on the payload of lib.rs 111: a failed
\* result is ordered and reported like a successful one.
OnNewResultNoErr(target, msg, st) ==
    IF msg.pos # st.n THEN [st EXCEPT !.buf = Push(@, State(msg.pos, msg.val))]
    ELSE LET after == CallReport(st, State(msg.pos, msg.val)) IN
         IF after.exit = "continue" THEN Finish(target, Drain(after)) ELSE after

\* OnNewResult that pushes every result, and reports it too when it is the
\* expected one (the `continue` of lib.rs 114 applied to the wrong branch).
OnNewResultPushAlways(target, msg, st) ==
    IF ~msg.ok THEN [st EXCEPT !.exit = "err", !.err = TransformErr(msg.pos)]
    ELSE LET pushed == [st EXCEPT !.buf = Push(@, State(msg.pos, msg.val))] IN
         IF msg.pos # st.n THEN pushed
         ELSE LET after == CallReport(pushed, State(msg.pos, msg.val)) IN
              IF after.exit = "continue" THEN Finish(target, Drain(after)) ELSE after

\* OnNewResult with the `?` on the payload applied only when the result is
\* the expected one: a failed result ahead of its turn is buffered.
OnNewResultLateErr(target, msg, st) ==
    IF msg.pos # st.n THEN [st EXCEPT !.buf = Push(@, State(msg.pos, msg.val))]
    ELSE IF ~msg.ok THEN [st EXCEPT !.exit = "err", !.err = TransformErr(msg.pos)]
    ELSE LET after == CallReport(st, State(msg.pos, msg.val)) IN
         IF after.exit = "continue" THEN Finish(target, Drain(after)) ELSE after

\* lib.rs 110-125: the NewResult arm.
OnNewResult(target, msg, st) ==
    IF ~msg.ok THEN [st EXCEPT !.exit = "err", !.err = TransformErr(msg.pos)]
    ELSE IF msg.pos # st.n THEN [st EXCEPT !.buf = Push(@, State(msg.pos, msg.val))]
    ELSE LET after == CallReport(st, State(msg.pos, msg.val)) IN
         IF after.exit = "continue" THEN Finish(target, Drain(after)) ELSE after

\* lib.rs 106-129: the body of the receive loop for one message, given the
\* flag value loaded at its top.
ProcessMsg(target, msg, n, b) ==
    LET st == [n |-> n, buf |-> b, calls |-> <<>>, exit |-> "continue", err |-> NoErr] IN
    IF target < 0 THEN [st EXCEPT !.exit = "ok"]
    ELSE IF msg.kind = "NewResult" THEN OnNewResult(target, msg, st)
    ELSE Finish(target, st)

\* lib.rs 105: rx.iter() yields the next message; blocks while the channel
\* is empty (tx2 is never dropped).
CoordRecv ==
    /\ cpc = "recv"
    /\ chan # <<>>
    /\ cmsg' = Head(chan)
    /\ chan' = Tail(chan)
    /\ cpc' = "proc"
    /\ UNCHANGED <<inputVars, flag, queue, rx2Alive, mainVars, workerVars, cn, buf, cerr,
                   result, reported, reportedPos, peakBuf, ret>>

\* Where the report thread goes once the loop body has run.
CoordAfter(exit) ==
    CASE exit = "continue" -> "recv"
      [] exit = "ok" -> "done"
      [] exit = "err" -> "failed"
      [] OTHER -> "panicked"

\* lib.rs 106-131: flag load and the loop body for the received message.
\* Leaving run_report (return or unwind) drops rx2 and with it the channel's
\* contents.
CoordProcess ==
    /\ cpc = "proc"
    /\ LET st == ProcessMsg(flag, cmsg, cn, buf) IN
         /\ cn' = st.n
         /\ buf' = st.buf
         /\ peakBuf' = IF Len(st.buf) > peakBuf THEN Len(st.buf) ELSE peakBuf
         /\ reported' = reported \o [k \in 1..Len(st.calls) |-> st.calls[k].payload]
         /\ reportedPos' = reportedPos \o [k \in 1..Len(st.calls) |-> st.calls[k].pos]
         /\ cerr' = st.err
         /\ cpc' = CoordAfter(st.exit)
         /\ rx2Alive' = (st.exit = "continue")
         /\ chan' = IF st.exit = "continue" THEN chan ELSE <<>>
    /\ cmsg' = MsgNone
    /\ UNCHANGED <<inputVars, flag, queue, mainVars, workerVars, result, ret>>

\* CoordStoreError storing FLAG_WORKER_PANIC for the FLAG_ERROR of lib.rs 184.
CoordStoreErrorWrongFlag ==
    /\ cpc = "failed"
    /\ flag' = FLAG_WORKER_PANIC
    /\ result' = [ok |-> FALSE, count |-> 0, err |-> cerr]
    /\ cpc' = "done"
    /\ UNCHANGED <<inputVars, queue, chan, rx2Alive, mainVars, workerVars, cmsg, cn, buf,
                   cerr, reported, reportedPos, peakBuf, ret>>

\* CoordStoreError without the assignment to `result` of lib.rs 185.
CoordStoreErrorNoResult ==
    /\ cpc = "failed"
    /\ flag' = FLAG_ERROR
    /\ cpc' = "done"
    /\ UNCHANGED <<inputVars, queue, chan, rx2Alive, mainVars, workerVars, cmsg, cn, buf,
                   cerr, result, reported, reportedPos, peakBuf, ret>>

\* lib.rs 183-186: run_report returned Err(err): store FLAG_ERROR, record
\* the error in `result`.
CoordStoreError ==
    /\ cpc = "failed"
    /\ flag' = FLAG_ERROR
    /\ result' = [ok |-> FALSE, count |-> 0, err |-> cerr]
    /\ cpc' = "done"
    /\ UNCHANGED <<inputVars, queue, chan, rx2Alive, mainVars, workerVars, cmsg, cn, buf,
                   cerr, reported, reportedPos, peakBuf, ret>>

\* ------------------------------------------------------- scope end, match

\* A scope that waits for the report thread only.
AllJoinedReportOnly ==
    cpc \in {"done", "panicked"}

\* crossbeam scope: every spawned thread has terminated.
AllJoined ==
    /\ \A w \in Active : wpc[w] \in {"done", "panicked"}
    /\ cpc \in {"done", "panicked"}

AnyThreadPanicked ==
    \/ \E w \in Active : wpc[w] = "panicked"
    \/ cpc = "panicked"

Raised == [kind |-> "panic", count |-> 0, err |-> NoErr]

\* FinalMatch returning `result` in the non-negative arm too.
FinalMatchResult(fl, res) ==
    IF fl >= 0 \/ fl = FLAG_ERROR
       THEN IF res.ok THEN [kind |-> "Ok", count |-> res.count, err |-> NoErr]
                      ELSE [kind |-> "Err", count |-> 0, err |-> res.err]
    ELSE Raised

\* lib.rs 209-215: the final match on the flag.
FinalMatch(fl, res) ==
    IF fl >= 0 THEN [kind |-> "Ok", count |-> fl, err |-> NoErr]
    ELSE IF fl = FLAG_ERROR
         THEN IF res.ok THEN [kind |-> "Ok", count |-> res.count, err |-> NoErr]
                        ELSE [kind |-> "Err", count |-> 0, err |-> res.err]
    ELSE Raised

\* lib.rs 207-215: the scope joins every thread; a panic of a spawned thread
\* makes scope() return Err, which the unwrap turns into a panic of run;
\* otherwise run returns what the final match yields.
RunReturn ==
    /\ pcMain = "join"
    /\ AllJoined
    /\ ret' = IF AnyThreadPanicked THEN Raised ELSE FinalMatch(flag, result)
    /\ pcMain' = IF ret'.kind = "panic" THEN "raised" ELSE "returned"
    /\ UNCHANGED <<inputVars, flag, queue, chan, rx2Alive, dn, tok, workerVars, coordVars>>

\* lib.rs 160, 207: the scope closure itself panicked (a failed unwrap):
\* scope() still joins every thread, then resumes the unwinding.
RunUnwind ==
    /\ pcMain = "panicked"
    /\ AllJoined
    /\ ret' = Raised
    /\ pcMain' = "raised"
    /\ UNCHANGED <<inputVars, flag, queue, chan, rx2Alive, dn, tok, workerVars, coordVars>>

Next ==
    \/ DispatchNext
    \/ DispatchSend
    \/ DispatchCheck
    \/ DispatchStoreCount
    \/ DispatchSentinel
    \/ DispatchDrain
    \/ DispatchToken
    \/ \E w \in Active : WorkerRecv(w)
    \/ \E w \in Active : WorkerCheck(w)
    \/ \E w \in Active : WorkerSend(w)
    \/ CoordRecv
    \/ CoordProcess
    \/ CoordStoreError
    \/ RunReturn
    \/ RunUnwind

Spec == Init /\ [][Next]_vars

\* Runs in which no callback fails, over an input of SkewLen elements: the
\* steps that only a negative flag, an Err from run_report or the exit of
\* every worker enables are left out.
InitSkew ==
    /\ threads \in Pools
    /\ \E len \in {SkewLen} :
         /\ xs = [k \in 1..len |-> X(k - 1)]
         /\ tOut = [p \in 0..(len - 1) |-> "ok"]
         /\ rOut = [p \in 0..(len - 1) |-> "ok"]
         /\ started = [p \in 0..(len - 1) |-> 0]
    /\ Constructed

NextSkew ==
    \/ DispatchNext
    \/ DispatchSend
    \/ DispatchCheck
    \/ DispatchStoreCount
    \/ DispatchSentinel
    \/ DispatchToken
    \/ \E w \in Active : WorkerRecv(w)
    \/ \E w \in Active : WorkerCheck(w)
    \/ \E w \in Active : WorkerSend(w)
    \/ CoordRecv
    \/ CoordProcess
    \/ RunReturn

SpecSkew == InitSkew /\ [][NextSkew]_vars

\* Runs over an input of CancelLen elements in which each callback returns
\* Ok or Err and none panics.
InitCancel ==
    /\ threads \in Pools
    /\ \E len \in {CancelLen} :
         /\ xs = [k \in 1..len |-> X(k - 1)]
         /\ tOut \in [0..(len - 1) -> {"ok", "err"}]
         /\ rOut \in [0..(len - 1) -> {"ok", "err"}]
         /\ started = [p \in 0..(len - 1) |-> 0]
    /\ Observable(tOut, rOut)
    /\ Constructed

SpecCancel == InitCancel /\ [][Next]_vars

\* ================================================================ claims

NoFaults ==
    /\ \A p \in Positions : tOut[p] = "ok"
    /\ \A p \in Positions : rOut[p] = "ok"

\* The only fault of the run: f returns Err at position p.
OnlyTransformErr(p) ==
    /\ p \in Positions
    /\ tOut[p] = "err"
    /\ \A q \in Positions \ {p} : tOut[q] = "ok"
    /\ \A q \in Positions : rOut[q] = "ok"

\* The only fault of the run: f panics at position p.
OnlyTransformPanic(p) ==
    /\ p \in Positions
    /\ tOut[p] = "panic"
    /\ \A q \in Positions \ {p} : tOut[q] = "ok"
    /\ \A q \in Positions : rOut[q] = "ok"

\* The only fault of the run: report panics at position p.
OnlyReportPanic(p) ==
    /\ p \in Positions
    /\ rOut[p] = "panic"
    /\ \A q \in Positions \ {p} : rOut[q] = "ok"
    /\ \A q \in Positions : tOut[q] = "ok"

\* No thread can take a step.
Stuck == ~ENABLED Next

Expected == [k \in 1..Len0 |-> F(xs[k])]

\* C1: in a run without errors or panics, when run has returned the
\* payloads passed to report are f(x_0), ..., f(x_{len-1}) in input order.
C1_OrderPreserved ==
    (NoFaults /\ pcMain = "returned") => reported = Expected

\* A fault-free run that returned after the report thread had to buffer a
\* result that arrived ahead of its turn.
C1_Witness ==
    /\ NoFaults
    /\ pcMain = "returned"
    /\ Len0 >= 2
    /\ peakBuf >= 1

\* C2: when run returns Ok(count), count is the input length; for an empty
\* input report is never invoked and the run ends with Ok(0).
C2_CountCorrect ==
    /\ (pcMain = "returned" /\ ret.kind = "Ok") => ret.count = Len0
    /\ Len0 = 0 => reported = <<>>
    /\ (Len0 = 0 /\ Stuck) => (pcMain = "returned" /\ ret.kind = "Ok" /\ ret.count = 0)

\* run returned Ok for a non-empty input with every element reported.
C2_Witness ==
    /\ pcMain = "returned"
    /\ ret.kind = "Ok"
    /\ ret.count = MaxLen
    /\ Len(reported) = MaxLen

\* C3 (as claimed): when f returns Err for the first element and there are
\* fewer threads than elements, no thread stays blocked forever: whenever
\* nothing can step any more, run has left the scope (returned or raised).
C3_NoDeadlockOnEarlyError ==
    (threads < Len0 /\ OnlyTransformErr(0)) => (~Stuck \/ pcMain \in {"returned", "raised"})

\* C4 (as claimed): in a run without errors or panics, whenever nothing can
\* step any more run has returned Ok, and the dispatcher never panics.
C4_TerminatesWithoutFailure ==
    NoFaults => /\ pcMain # "panicked"
                /\ Stuck => (pcMain = "returned" /\ ret.kind = "Ok")

\* C5 (as claimed): if f fails at exactly one position and report never
\* fails, report is never invoked.
C5_NoReportAtAll ==
    \A p \in Positions : OnlyTransformErr(p) => reported = <<>>

\* C5 (amended): if f fails at exactly one position p and report never
\* fails, report is invoked only for positions below p; so never when p = 0.
C5_ReportOnlyBelowFailure ==
    \A p \in Positions : OnlyTransformErr(p) =>
        /\ \A k \in 1..Len(reportedPos) : reportedPos[k] < p
        /\ Len(reported) <= p

\* f failed at position 1 only, position 0 was reported before the failure
\* reached the report thread, and run returned that error.
C5_Witness ==
    /\ OnlyTransformErr(1)
    /\ reportedPos = <<0>>
    /\ pcMain = "returned"
    /\ ret.kind = "Err"

\* C6: when run_report stopped with the error e (the first, and only, error
\* it met), the value run returns is Err(e).
C6_ErrorReturned ==
    (pcMain = "returned" /\ cerr # NoErr) =>
        /\ ret = [kind |-> "Err", count |-> 0, err |-> cerr]
        /\ cpc = "done"

\* Two positions fail; the report thread met the failure of position 1
\* first and run returned it.
C6_Witness ==
    /\ Len0 >= 2
    /\ tOut[0] = "err"
    /\ tOut[1] = "err"
    /\ pcMain = "returned"
    /\ ret.kind = "Err"
    /\ ret.err = TransformErr(1)

\* C7: at every point of every run the positions passed to report are
\* 0, 1, ..., k-1 in this order, and k is at most every position whose
\* transform has returned an error.
C7_PrefixOrder ==
    /\ reportedPos = [k \in 1..Len(reportedPos) |-> k - 1]
    /\ Len(reportedPos) <= Len0
    /\ \A p \in Positions :
         (tOut[p] = "err" /\ started[p] > 0) => Len(reportedPos) <= p

\* The transform of position p >= 1 has returned an error while report had
\* not been invoked yet, and report has since been invoked for all of
\* 0..p-1.
C7_Witness ==
    \E p \in Positions :
        /\ p >= 1
        /\ tOut[p] = "err"
        /\ started[p] > 0
        /\ threads >= 2
        /\ Len(reportedPos) = p
        /\ cpc = "recv"

\* C8: once run has returned, every worker and the report thread have
\* exited and no callback can be invoked any more.
C8_NoCallbackAfterReturn ==
    pcMain = "returned" =>
        /\ \A w \in Active : wpc[w] = "done"
        /\ cpc = "done"
        /\ ~ENABLED (CoordProcess \/ \E w \in Active : WorkerCheck(w))

\* run returned an error after report had been invoked.
C8_Witness ==
    /\ pcMain = "returned"
    /\ ret.kind = "Err"
    /\ Len(reportedPos) >= 1
    /\ threads = MaxThreads

\* C9 (as claimed): if f panics for one element, whenever nothing can step
\* any more every thread has been joined and run has raised a panic.
C9_PanicIsolation ==
    (\E p \in Positions : OnlyTransformPanic(p)) => (~Stuck \/ pcMain = "raised")

\* C10 (as claimed): if report panics, no thread stays blocked forever:
\* whenever nothing can step any more, run has left the scope.
C10_ReportPanicNoDeadlock ==
    (\E p \in Positions : OnlyReportPanic(p)) => (~Stuck \/ pcMain \in {"returned", "raised"})

\* C11 (as claimed): once the control flag holds a negative value it never
\* again holds a non-negative one.
C11_FlagStaysNegative ==
    [][flag < 0 => flag' < 0]_vars

\* C12 (as claimed): no send of the dispatcher fails, so none of its
\* unwrap() calls panics.
C12_DispatcherNeverPanics ==
    pcMain # "panicked"

\* run_report has returned Ok(()).
CoordSucceeded == cpc = "done" /\ cerr = NoErr

\* C13: run_report returns Ok(()) only when the dispatcher has published
\* the element count, the flag holds it, next_expected equals it, every
\* position has been passed to report and the pending buffer is empty.
C13_SuccessExit ==
    CoordSucceeded =>
        /\ pcMain \notin {"loop", "send", "check", "store"}
        /\ flag = Len0
        /\ cn = Len0
        /\ buf = <<>>
        /\ reportedPos = [k \in 1..Len0 |-> k - 1]

\* run_report returned Ok(()) on its last result, after a buffered result
\* had been released, while the dispatcher had not sent the sentinel yet.
C13_Witness ==
    /\ CoordSucceeded
    /\ Len0 = MaxLen
    /\ peakBuf >= 1
    /\ pcMain = "sentinel"

\* C14: every position in the pending buffer is >= next_expected (so the
\* assertion of the drain loop holds), is buffered once, and has not been
\* passed to report.
C14_BufferInvariant ==
    /\ \A k \in 1..Len(buf) : buf[k].pos >= cn
    /\ \A j, k \in 1..Len(buf) : j # k => buf[j].pos # buf[k].pos
    /\ \A k \in 1..Len(buf) : \A j \in 1..Len(reportedPos) : buf[k].pos # reportedPos[j]

\* A result is waiting in the pending buffer for an earlier position.
C14_Witness ==
    /\ Len(buf) >= 1
    /\ buf[1].pos > cn
    /\ cpc = "recv"
    /\ started[cn] = 1

\* C15 (as claimed): the pending buffer never holds more than
\* threads x (2 x threads) entries.
C15_BufferBound ==
    Len(buf) <= threads * Capacity

\* C15 (amended): the pending buffer holds fewer entries than there are
\* positions from next_expected to the end of the input, so at most
\* len - 1 entries; the channel capacities do not bound it.
C15_BufferBelowRemaining ==
    /\ buf # <<>> => Len(buf) < Len0 - cn
    /\ Len(buf) <= Len0

\* The worker holding position 0 has not delivered it while the other
\* worker's results for every later position sit in the pending buffer.
C15_Witness ==
    /\ cn = 0
    /\ Len(buf) = Len0 - 1
    /\ Len(buf) > threads * Capacity
    /\ \E w \in Active : wpc[w] = "send" /\ witem[w] = 0

\* C16: when run_report processes an error result, whatever its position,
\* it stops with that error without buffering it or calling report; and
\* once it has stopped with an error report is never invoked again.
C16_ImmediateError ==
    [][ /\ (cpc = "proc" /\ ~cmsg.ok /\ cpc' # "proc") =>
             /\ cpc' = "failed"
             /\ cerr' = TransformErr(cmsg.pos)
             /\ buf' = buf
             /\ reportedPos' = reportedPos
        /\ cerr # NoErr =>
             /\ reportedPos' = reportedPos
             /\ cpc' \in {"failed", "done"}
      ]_vars

\* run_report stopped on the error of position 1 while position 0 was
\* still outstanding (next_expected = 0, nothing reported).
C16_Witness ==
    /\ cpc = "failed"
    /\ cerr = TransformErr(1)
    /\ cn = 0
    /\ reportedPos = <<>>
    /\ tOut[0] = "ok"

\* C17: after the control flag first becomes negative, each worker begins
\* at most one further transform invocation; a worker that holds a result
\* at that point, or later, exits on sending it (rx2 is already dropped).
C17_BoundedWorkAfterCancel ==
    \A w \in Active :
        /\ lateStarts[w] <= 1
        /\ (Cancelled /\ wpc[w] = "send") => ~rx2Alive
        /\ (lateStarts[w] = 1 /\ wpc[w] # "send") => wpc[w] = "done"

\* A worker began one transform after FLAG_ERROR had been stored, with more
\* items still in the work queue, and has exited.
C17_Witness ==
    \E w \in Active :
        /\ lateStarts[w] = 1
        /\ wpc[w] = "done"
        /\ \E k \in 1..Len(queue) : queue[k] # TOKEN

\* C18: whenever run_report waits for its next message every buffered
\* position is strictly greater than next_expected: the drain loop has
\* released the whole contiguous run.
C18_GreedyDrain ==
    cpc = "recv" => \A k \in 1..Len(buf) : buf[k].pos > cn

\* Two results were buffered behind position 0 and then released in one
\* drain; run_report waits again with an empty buffer.
C18_Witness ==
    /\ peakBuf = 2
    /\ reportedPos = <<0, 1, 2>>
    /\ buf = <<>>
    /\ cpc = "recv"

\* C19: the transform is invoked at most once for each position, and
\* exactly once for every position in a run that returns Ok.
C19_ExactlyOnce ==
    /\ \A p \in Positions : started[p] <= 1
    /\ (pcMain = "returned" /\ ret.kind = "Ok") => \A p \in Positions : started[p] = 1

\* run returned Ok with two workers after each position was transformed
\* once.
C19_Witness ==
    /\ pcMain = "returned"
    /\ ret.kind = "Ok"
    /\ threads = MaxThreads
    /\ Len0 = MaxLen
    /\ \A p \in Positions : started[p] = 1

NoPanics ==
    /\ \A p \in Positions : tOut[p] # "panic"
    /\ \A p \in Positions : rOut[p] # "panic"

\* C20: in a run in which no callback panics the flag only holds FLAG_INIT,
\* the dispatched element count or FLAG_ERROR, so the final match never
\* reaches its panic arms or unreachable!(), and the flag run_report loads
\* is never negative.
C20_FlagDomain ==
    NoPanics =>
        /\ flag \in {FLAG_INIT, FLAG_ERROR, dn}
        /\ flag \notin {FLAG_WORKER_PANIC, FLAG_REPORT_PANIC}
        /\ flag >= FLAG_ERROR
        /\ cpc = "proc" => flag >= 0
        /\ pcMain = "returned" => FinalMatch(flag, result) # Raised

\* No callback panics, the report thread has stored FLAG_ERROR and the
\* dispatcher has since stored the element count over it.
C20_Witness ==
    /\ NoPanics
    /\ Cancelled
    /\ dn >= 1
    /\ flag = dn

====
